---------------------------- MODULE Spec2Model ----------------------------
(***************************************************************************)
(* Model of astroduet/lightcurve.py: the good-time-interval (GTI) algebra  *)
(* (join_equal_gti_boundaries, cross_two_gtis), the orbital visibility     *)
(* windows (get_visibility_windows), the windowed flux average             *)
(* (calculate_flux) and the exposure loop of                               *)
(* calculate_lightcurve_from_model.                                        *)
(*                                                                         *)
(* An interval is a pair <<start, end>>; a GTI list (an (n, 2) array) is a *)
(* sequence of intervals.  Array positions are 1-based here, 0-based in    *)
(* the source.  Times are integers.                                        *)
(***************************************************************************)
EXTENDS Integers, Sequences, FiniteSets, TLC

VARIABLES
    pc,          \* position of the running call
    listA,       \* first GTI list handed to cross_two_gtis by its caller
    listB,       \* second GTI list handed to cross_two_gtis by its caller
    call,        \* 1: cross_two_gtis(A, B) is running, 2: cross_two_gtis(B, A)
    first_gti,   \* what call 1 returned
    gti0,        \* cross_two_gtis: gti0 after line 72
    gti1,        \* cross_two_gtis: gti1 after line 73
    order,       \* cross_two_gtis: the argsort of conc_end (line 96)
    ie,          \* cross_two_gtis: index of the end event the loop is at
    last_end,    \* cross_two_gtis: end of the last emitted interval
    final_gti,   \* cross_two_gtis: the intervals emitted so far
    vis,         \* get_visibility_windows: arguments and returned windows
    lc           \* calculate_lightcurve_from_model: arguments, loop state, table

vars == <<pc, listA, listB, call, first_gti, gti0, gti1, order, ie, last_end,
          final_gti, vis, lc>>

gtiVars == <<listA, listB, call, first_gti, gti0, gti1, order, ie, last_end,
             final_gti>>

-----------------------------------------------------------------------------
(* Bounds of the model. *)

\* largest time of an interval handed to cross_two_gtis
MaxTime == 4

\* largest number of intervals in one GTI list
MaxLen == 3

\* largest observation_start and observation_end handed to get_visibility_windows
VisMaxStart == 2

VisMaxEnd == 6

\* largest exposure_per_orbit handed to get_visibility_windows
VisMaxExposure == 3

\* largest number of intervals in a window list handed to
\* calculate_lightcurve_from_model
LcMaxLen == 2

\* largest model value handed to calculate_lightcurve_from_model
MaxFlux == 1

-----------------------------------------------------------------------------
(* Array helpers. *)

\* Python's None.  Every list handed over explicitly is non-empty, so the empty
\* tuple is free to stand for the absent value.
None == <<>>

Max(a, b) == IF a >= b THEN a ELSE b

Min(a, b) == IF a <= b THEN a ELSE b

\* gti[:, 0]
Start(gti) == [i \in 1..Len(gti) |-> gti[i][1]]

\* gti[:, 1]
End(gti) == [i \in 1..Len(gti) |-> gti[i][2]]

\* a[a < e]: boolean-mask selection keeps the order of a
Below(a, e) == SelectSeq(a, LAMBDA x : x < e)

\* np.argmax: position of the first greatest element (a is not empty)
argmax(a) ==
    CHOOSE i \in 1..Len(a) :
        /\ \A j \in 1..Len(a) : a[j] <= a[i]
        /\ \A j \in 1..(i - 1) : a[j] < a[i]

\* np.argsort(conc_end): every ordering of the positions that puts the values in
\* ascending order.  The default kind is not stable, so events with equal end
\* times may come out in any relative order.
RECURSIVE ArgSorts(_, _)
ArgSorts(a, todo) ==
    IF todo = {} THEN {<<>>}
    ELSE UNION { { <<k>> \o r : r \in ArgSorts(a, todo \ {k}) } :
                 k \in { j \in todo : \A m \in todo : a[j] <= a[m] } }

-----------------------------------------------------------------------------
(* join_equal_gti_boundaries *)

\* np.any(gti[:-1, 1] == gti[1:, 0])
touching(gti) == \E i \in 1..(Len(gti) - 1) : gti[i][2] = gti[i + 1][1]

\* The loop runs count over 0 .. len(gti) - 2 and appends one row per count; the
\* last row of gti is only ever read as gti[count + 1].
join_equal_gti_boundaries(gti) ==
    IF touching(gti)
    THEN [count \in 1..(Len(gti) - 1) |->
            IF gti[count][2] = gti[count + 1][1]
            THEN <<gti[count][1], gti[count + 1][2]>>
            ELSE gti[count]]
    ELSE gti

-----------------------------------------------------------------------------
(* cross_two_gtis *)

\* gti_start[series], gti_end[series] (lines 84, 85)
gti_start(series) == IF series = 0 THEN Start(gti0) ELSE Start(gti1)

gti_end(series) == IF series = 0 THEN End(gti0) ELSE End(gti1)

\* lines 89-93, before the reordering
conc_start == Start(gti0) \o Start(gti1)

conc_end == End(gti0) \o End(gti1)

conc_tag == [i \in 1..(Len(gti0) + Len(gti1)) |-> IF i <= Len(gti0) THEN 0 ELSE 1]

\* the loop variables of line 103-106
e == conc_end[order[ie]]

this_series == conc_tag[order[ie]]

\* line 106: int(this_series == 0)
other_series_fixed(series) == 1

other_series_of(series) == IF series = 0 THEN 1 ELSE 0

other_series == other_series_of(this_series)

\* lines 111-114 raise (argmax of an empty array) when a series has no start < e
NoStart ==
    \/ Len(Below(gti_start(this_series), e)) = 0
    \/ Len(Below(gti_start(other_series), e)) = 0

st_pos == argmax(Below(gti_start(this_series), e))

so_pos == argmax(Below(gti_start(other_series), e))

\* lines 115-118: the positions found in the masked arrays index the full arrays
st == gti_start(this_series)[st_pos]

so == gti_start(other_series)[so_pos]

s == Max(st, so)

\* line 124
InsideLastStrict(start, last) == start < last

InsideLast(start, last) == start <= last

\* lines 129-131
condition ==
    LET cond1 == \E i \in 1..Len(gti_end(other_series)) :
                     gti_end(other_series)[i] > s /\ gti_end(other_series)[i] < e
        cond2 == gti_end(other_series)[so_pos] < s
    IN  cond1 \/ cond2

\* lines 72-102: everything before the loop
CrossEnter ==
    /\ pc = "cross"
    /\ LET j0 == join_equal_gti_boundaries(listA)
           j1 == join_equal_gti_boundaries(listB)
           ends == End(j0) \o End(j1)
           starts == Start(j0) \o Start(j1)
       IN  /\ gti0' = j0
           /\ gti1' = j1
           /\ \E o \in ArgSorts(ends, 1..Len(ends)) :
                 /\ order' = o
                 /\ last_end' = starts[o[1]] - 1
    /\ ie' = 1
    /\ final_gti' = <<>>
    /\ pc' = "sweep"
    /\ UNCHANGED <<listA, listB, call, first_gti, vis, lc>>

InLoop == pc = "sweep" /\ ie <= Len(order)

Continue ==
    /\ ie' = ie + 1
    /\ UNCHANGED <<pc, listA, listB, call, first_gti, gti0, gti1, order, vis, lc>>

\* lines 119-120: except: continue
SweepNoStart ==
    /\ InLoop
    /\ NoStart
    /\ UNCHANGED <<last_end, final_gti>>
    /\ Continue

\* lines 124-125
SweepInsideLast ==
    /\ InLoop
    /\ ~NoStart
    /\ InsideLast(s, last_end)
    /\ UNCHANGED <<last_end, final_gti>>
    /\ Continue

\* lines 129-134, condition true: nothing is appended
SweepClosed ==
    /\ InLoop
    /\ ~NoStart
    /\ ~InsideLast(s, last_end)
    /\ condition
    /\ UNCHANGED <<last_end, final_gti>>
    /\ Continue

\* lines 134-136
SweepEmit ==
    /\ InLoop
    /\ ~NoStart
    /\ ~InsideLast(s, last_end)
    /\ ~condition
    /\ final_gti' = Append(final_gti, <<s, e>>)
    /\ last_end' = e
    /\ Continue

\* line 138
CrossReturn ==
    /\ pc = "sweep"
    /\ ie > Len(order)
    /\ pc' = "returned"
    /\ UNCHANGED <<gtiVars, vis, lc>>

-----------------------------------------------------------------------------
(* A caller that crosses two valid GTI lists in both argument orders. *)

Intervals == { iv \in (0..MaxTime) \X (0..MaxTime) : iv[1] < iv[2] }

\* the GTI lists of at most n intervals starting at or after lo: sorted, start <
\* end, no overlap inside the list, touching intervals allowed
RECURSIVE GtisFrom(_, _)
GtisFrom(lo, n) ==
    IF n = 0 THEN {<<>>}
    ELSE {<<>>} \cup
         UNION { { <<iv>> \o r : r \in GtisFrom(iv[2], n - 1) } :
                 iv \in { x \in Intervals : x[1] >= lo } }

ValidGtis == GtisFrom(0, MaxLen) \ {<<>>}

NoVis == [args |-> None, obs_windows |-> None]

NoLc ==
    [args |-> None, observing_windows |-> None, w |-> 0, k |-> 0, rows |-> <<>>,
     result_table |-> None]

InitGti ==
    /\ pc = "cross"
    /\ listA \in ValidGtis
    /\ listB \in ValidGtis
    /\ call = 1
    /\ first_gti = None
    /\ gti0 = <<>>
    /\ gti1 = <<>>
    /\ order = <<>>
    /\ ie = 0
    /\ last_end = 0
    /\ final_gti = <<>>
    /\ vis = NoVis
    /\ lc = NoLc

\* the second call, with the arguments exchanged
CallSwapped ==
    /\ pc = "returned"
    /\ call = 1
    /\ call' = 2
    /\ first_gti' = final_gti
    /\ listA' = listB
    /\ listB' = listA
    /\ pc' = "cross"
    /\ UNCHANGED <<gti0, gti1, order, ie, last_end, final_gti, vis, lc>>

NextGti ==
    \/ CrossEnter
    \/ SweepNoStart
    \/ SweepInsideLast
    \/ SweepClosed
    \/ SweepEmit
    \/ CrossReturn
    \/ CallSwapped

SpecGti == InitGti /\ [][NextGti]_vars

-----------------------------------------------------------------------------
(* What an interval list covers, for stating the properties of the algebra. *)

\* the unit cells [t, t + 1] lying inside an interval of gti
Cells(gti) ==
    { t \in 0..(MaxTime - 1) :
        \E i \in 1..Len(gti) : gti[i][1] <= t /\ t + 1 <= gti[i][2] }

\* the maximal runs of consecutive cells, as intervals
RunsOf(cells) ==
    { <<a, b>> \in (0..MaxTime) \X (0..MaxTime) :
        /\ a < b
        /\ \A t \in a..(b - 1) : t \in cells
        /\ (a - 1) \notin cells
        /\ b \notin cells }

\* a set of disjoint intervals in chronological order
RECURSIVE Chronological(_)
Chronological(ivs) ==
    IF ivs = {} THEN <<>>
    ELSE LET first == CHOOSE x \in ivs : \A y \in ivs : x[1] <= y[1]
         IN  <<first>> \o Chronological(ivs \ {first})

Inside(iv, gti) ==
    \E i \in 1..Len(gti) : gti[i][1] <= iv[1] /\ iv[2] <= gti[i][2]

\* C1: every interval returned by cross_two_gtis(A, B) lies inside an interval of
\* A and inside an interval of B (runs of touching intervals counting as one
\* interval).
C1_Subset ==
    pc = "returned" =>
        \A k \in 1..Len(final_gti) :
            /\ Inside(final_gti[k], Chronological(RunsOf(Cells(listA))))
            /\ Inside(final_gti[k], Chronological(RunsOf(Cells(listB))))

\* C2: cross_two_gtis(A, B) returns exactly the maximal disjoint intervals covered
\* by both A and B: a time lies inside a returned interval iff it lies inside an
\* interval of A and inside one of B.
C2_Exact ==
    pc = "returned" =>
        final_gti = Chronological(RunsOf(Cells(listA) \cap Cells(listB)))

\* an interval of gti that touches neither neighbour
Lone(gti, i) ==
    /\ i > 1 => gti[i - 1][2] # gti[i][1]
    /\ i < Len(gti) => gti[i][2] # gti[i + 1][1]

\* C3 for one list: every touching pair is merged into an interval spanning both,
\* and every interval touching no neighbour is in the output exactly once.
Coalesced(gti, out) ==
    /\ \A i \in 1..(Len(gti) - 1) :
          gti[i][2] = gti[i + 1][1] =>
              \E k \in 1..Len(out) :
                  out[k][1] <= gti[i][1] /\ gti[i + 1][2] <= out[k][2]
    /\ \A i \in 1..Len(gti) :
          Lone(gti, i) => Cardinality({ k \in 1..Len(out) : out[k] = gti[i] }) = 1

\* C3: join_equal_gti_boundaries merges each touching pair of consecutive
\* intervals and passes every other interval through, none dropped or duplicated.
C3_Coalesce ==
    pc \in {"sweep", "returned"} =>
        Coalesced(listA, gti0) /\ Coalesced(listB, gti1)

\* C4: cross_two_gtis(A, A) equals join_equal_gti_boundaries(A).
C4_Identity ==
    (pc = "returned" /\ listA = listB) =>
        final_gti = join_equal_gti_boundaries(listA)

\* C5: cross_two_gtis(B, A) returns the same list as cross_two_gtis(A, B),
\* whatever order each call's argsort gave events with equal end times.
C5_Symmetry ==
    (pc = "returned" /\ call = 2) => final_gti = first_gti

\* C5 witness: the second call returned a non-empty list for two different lists
\* that have an end time in common.
C5_Witness ==
    /\ pc = "returned"
    /\ call = 2
    /\ listA # listB
    /\ final_gti # <<>>
    /\ \E i \in 1..Len(gti0), j \in 1..Len(gti1) : gti0[i][2] = gti1[j][2]

\* C10: after any prefix of the end events, every emitted interval has
\* start < end, starts strictly after the end of the interval emitted before it,
\* and the cursor last_end is the end of the last emitted interval.
C10_Ordered ==
    pc \in {"sweep", "returned"} =>
        /\ \A k \in 1..Len(final_gti) : final_gti[k][1] < final_gti[k][2]
        /\ \A k \in 2..Len(final_gti) : final_gti[k][1] > final_gti[k - 1][2]
        /\ final_gti # <<>> => last_end = final_gti[Len(final_gti)][2]

\* C10 witness: two intervals emitted in the middle of a sweep over lists that
\* share a boundary, one candidate having been skipped.
C10_Witness ==
    /\ pc = "sweep"
    /\ ie <= Len(order)
    /\ Len(final_gti) >= 2
    /\ ie > Len(final_gti) + 1
    /\ \E i \in 1..Len(gti0), j \in 1..Len(gti1) :
          gti0[i][1] = gti1[j][1] \/ gti0[i][2] = gti1[j][2]

-----------------------------------------------------------------------------
(* get_visibility_windows *)

\* the defaults of the signature, in seconds
default_orbital_period == 96 * 60

default_exposure_per_orbit == 35 * 60

\* np.arange(start, stop, step) for step > 0
arange(start, stop, step) ==
    LET n == IF stop > start THEN (stop - start + step - 1) \div step ELSE 0
    IN  [k \in 1..n |-> start + (k - 1) * step]

\* a[mask]: the rows of a at the positions in keep, in order
RECURSIVE MaskFrom(_, _, _)
MaskFrom(a, keep, i) ==
    IF i > Len(a) THEN <<>>
    ELSE (IF i \in keep THEN <<a[i]>> ELSE <<>>) \o MaskFrom(a, keep, i + 1)

\* phase_start is a fraction <<numerator, denominator>> of the orbit; the
\* callers below only use fractions for which orbital_period * phase_start is
\* an integer.
get_visibility_windows(observation_start, observation_end, orbital_period, exposure_per_orbit, phase_start) ==
    LET tstart == observation_start
                  + (orbital_period * phase_start[1]) \div phase_start[2]
        start_times == arange(tstart, observation_end + orbital_period,
                              orbital_period)
        end_times == [k \in 1..Len(start_times) |->
                        start_times[k] + exposure_per_orbit]
        good == { k \in 1..Len(start_times) : start_times[k] < observation_end }
        \* line 178: the boolean mask selects whole rows, and the scalar is
        \* written to both columns of each selected row
        obs_windows == [k \in 1..Len(start_times) |->
                          IF end_times[k] > observation_end
                          THEN <<observation_end, observation_end>>
                          ELSE <<start_times[k], end_times[k]>>]
    IN  MaskFrom(obs_windows, good, 1)

GetVisibilityWindows ==
    /\ pc = "visibility"
    /\ vis' = [vis EXCEPT !.obs_windows =
                  get_visibility_windows(vis.args.observation_start,
                                         vis.args.observation_end,
                                         vis.args.orbital_period,
                                         vis.args.exposure_per_orbit,
                                         vis.args.phase_start)]
    /\ pc' = "visible"
    /\ UNCHANGED <<gtiVars, lc>>

Phases == { <<0, 1>>, <<1, 2>>, <<1, 1>> }

VisArgs ==
    { [observation_start |-> os, observation_end |-> oe, orbital_period |-> p,
       exposure_per_orbit |-> x, phase_start |-> ph] :
        os \in 0..VisMaxStart, oe \in 1..VisMaxEnd, p \in {2, 4},
        x \in 1..VisMaxExposure, ph \in Phases }

\* get_visibility_windows(0, 5760 * 2), the call of the docstring
DocVisArgs ==
    [observation_start |-> 0, observation_end |-> 5760 * 2,
     orbital_period |-> default_orbital_period,
     exposure_per_orbit |-> default_exposure_per_orbit, phase_start |-> <<0, 1>>]

InitVis ==
    /\ pc = "visibility"
    /\ vis \in { [args |-> a, obs_windows |-> None] :
                 a \in { x \in VisArgs : x.observation_start < x.observation_end }
                       \cup {DocVisArgs} }
    /\ listA = <<>>
    /\ listB = <<>>
    /\ call = 0
    /\ first_gti = None
    /\ gti0 = <<>>
    /\ gti1 = <<>>
    /\ order = <<>>
    /\ ie = 0
    /\ last_end = 0
    /\ final_gti = <<>>
    /\ lc = NoLc

NextVis == GetVisibilityWindows

SpecVis == InitVis /\ [][NextVis]_vars

\* the start time of window k (k = 0, 1, ...) of a call
WindowStart(a, k) ==
    a.observation_start
    + (a.orbital_period * a.phase_start[1]) \div a.phase_start[2]
    + k * a.orbital_period

\* C6: get_visibility_windows returns one window per start time t_k before
\* observation_end, and window k is [t_k, min(t_k + exposure_per_orbit,
\* observation_end)]: a window running past observation_end keeps its start.
C6_Windows ==
    pc = "visible" =>
        LET a == vis.args
            n == Cardinality({ k \in 0..a.observation_end :
                                 WindowStart(a, k) < a.observation_end })
        IN  vis.obs_windows =
                [k \in 1..n |->
                    <<WindowStart(a, k - 1),
                      Min(WindowStart(a, k - 1) + a.exposure_per_orbit,
                          a.observation_end)>>]

\* the example of C6 alone: the call of the docstring returns the two windows
C6_DocExample ==
    (pc = "visible" /\ vis.args = DocVisArgs) =>
        vis.obs_windows = << <<0, 2100>>, <<5760, 7860>> >>

-----------------------------------------------------------------------------
(* calculate_flux and calculate_lightcurve_from_model *)
(*                                                                         *)
(* The ten fine times of an exposure are multiples of a ninth of the time  *)
(* unit and the interpolated values are fractions, so both are kept as     *)
(* integer numerators over a stated denominator, and a flux is a reduced   *)
(* fraction <<numerator, denominator>>.                                    *)

\* number of samples per exposure (line 232)
fine_samples == 10

RECURSIVE GCD(_, _)
GCD(a, b) == IF b = 0 THEN a ELSE GCD(b, a % b)

Abs(x) == IF x < 0 THEN -x ELSE x

\* the fraction n / d (d > 0) in lowest terms
Frac(n, d) ==
    LET g == GCD(Abs(n), d)
    IN  <<n \div g, d \div g>>

RECURSIVE Sum(_)
Sum(a) == IF a = <<>> THEN 0 ELSE a[1] + Sum(Tail(a))

RECURSIVE Product(_)
Product(a) == IF a = <<>> THEN 1 ELSE a[1] * Product(Tail(a))

\* np.diff
diff(a) == [i \in 1..(Len(a) - 1) |-> a[i + 1] - a[i]]

\* np.linspace(start, stop, num), as numerators over num - 1
linspace(start, stop, num) ==
    [i \in 1..num |-> (num - 1) * start + (i - 1) * (stop - start)]

\* lines 185-186: dt = mean(diff(time)); sum(flux * dt) / (time[-1] - time[0]).
\* time and flux are numerators over their denominators; the time denominator
\* cancels, the result is a fraction of the flux denominator.
calculate_flux(time, flux) ==
    <<Sum(flux) * Sum(diff(time)), (Len(time) - 1) * (time[Len(time)] - time[1])>>

\* the denominator of the values interp1d returns at fine times: the fine-time
\* denominator times every segment length
ValDen(model_time) == (fine_samples - 1) * Product(diff(model_time))

\* interp1d(model_time, model_lc, fill_value=0, bounds_error=False) at the fine
\* time x / (fine_samples - 1), as a numerator over ValDen(model_time)
interpolated_lc(model_time, model_lc, x) ==
    LET f == fine_samples - 1
        n == Len(model_time)
    IN  IF x < f * model_time[1] \/ x > f * model_time[n] THEN 0
        ELSE LET i == CHOOSE j \in 1..(n - 1) :
                          f * model_time[j] <= x /\ x <= f * model_time[j + 1]
                 d == model_time[i + 1] - model_time[i]
             IN  (model_lc[i] * f * d
                    + (model_lc[i + 1] - model_lc[i]) * (x - f * model_time[i]))
                 * (Product(diff(model_time)) \div d)

\* observing_windows.min(), observing_windows.max()
ArrayMin(gti) ==
    CHOOSE x \in { gti[i][j] : i \in 1..Len(gti), j \in 1..2 } :
        \A i \in 1..Len(gti), j \in 1..2 : x <= gti[i][j]

ArrayMax(gti) ==
    CHOOSE x \in { gti[i][j] : i \in 1..Len(gti), j \in 1..2 } :
        \A i \in 1..Len(gti), j \in 1..2 : x >= gti[i][j]

\* lines 214-222, up to the call of cross_two_gtis
LcEnter ==
    /\ pc = "lightcurve"
    /\ LET a == lc.args
           observing_windows ==
               IF a.observing_windows = None
               THEN << <<a.model_time[1], a.model_time[Len(a.model_time)]>> >>
               ELSE a.observing_windows
           visibility_windows ==
               IF a.visibility_windows = None
               THEN get_visibility_windows(ArrayMin(observing_windows),
                                           ArrayMax(observing_windows),
                                           a.kwargs.orbital_period,
                                           a.kwargs.exposure_per_orbit,
                                           a.kwargs.phase_start)
               ELSE a.visibility_windows
       IN  /\ listA' = observing_windows
           /\ listB' = visibility_windows
    /\ pc' = "cross"
    /\ UNCHANGED <<call, first_gti, gti0, gti1, order, ie, last_end, final_gti,
                   vis, lc>>

\* lines 222-227: the crossed windows become observing_windows
LcStartLoop ==
    /\ pc = "returned"
    /\ lc.args # None
    /\ lc' = [lc EXCEPT !.observing_windows = final_gti, !.w = 1, !.k = 1,
                        !.rows = <<>>]
    /\ pc' = "expose"
    /\ UNCHANGED <<gtiVars, vis>>

\* line 229, for the window the outer loop is at
expo_times ==
    arange(lc.observing_windows[lc.w][1], lc.observing_windows[lc.w][2],
           lc.args.exposure_length)

\* lines 231-235: one exposure.  fine_times and fine_model are kept with the
\* row; the table gets time and flux.
Exposure(a, w, t) ==
    LET fine_times == linspace(t, t + a.exposure_length, fine_samples)
        fine_model == [i \in 1..fine_samples |->
                         interpolated_lc(a.model_time, a.model_lc, fine_times[i])]
        flux == calculate_flux(fine_times, fine_model)
    IN  [ow |-> w,
         t |-> t,
         time |-> t + a.exposure_length \div 2,
         fine_times |-> fine_times,
         fine_model |-> fine_model,
         flux |-> Frac(flux[1], flux[2] * ValDen(a.model_time))]

LcExposure ==
    /\ pc = "expose"
    /\ lc.w <= Len(lc.observing_windows)
    /\ lc.k <= Len(expo_times)
    /\ lc' = [lc EXCEPT !.rows = Append(@, Exposure(lc.args, lc.w, expo_times[lc.k])),
                        !.k = @ + 1]
    /\ UNCHANGED <<pc, gtiVars, vis>>

\* the inner loop is over: next window
LcNextWindow ==
    /\ pc = "expose"
    /\ lc.w <= Len(lc.observing_windows)
    /\ lc.k > Len(expo_times)
    /\ lc' = [lc EXCEPT !.w = @ + 1, !.k = 1]
    /\ UNCHANGED <<pc, gtiVars, vis>>

\* lines 237-241
LcReturn ==
    /\ pc = "expose"
    /\ lc.w > Len(lc.observing_windows)
    /\ lc' = [lc EXCEPT !.result_table =
                 [time |-> [i \in 1..Len(lc.rows) |-> lc.rows[i].time],
                  flux |-> [i \in 1..Len(lc.rows) |-> lc.rows[i].flux]]]
    /\ pc' = "done"
    /\ UNCHANGED <<gtiVars, vis>>

\* the defaults of get_visibility_windows, used when no kwargs are given
DefaultKwargs ==
    [orbital_period |-> default_orbital_period,
     exposure_per_orbit |-> default_exposure_per_orbit, phase_start |-> <<0, 1>>]

ShortOrbit == [orbital_period |-> 2, exposure_per_orbit |-> 1, phase_start |-> <<0, 1>>]

LcWindows == (GtisFrom(0, LcMaxLen) \ {<<>>}) \cup {None}

LcModels ==
    { [model_time |-> mt, model_lc |-> ml] :
        mt \in { <<0, 2, 4>>, <<1, 2, 4>> }, ml \in [1..3 -> 0..MaxFlux] }

LcArgs ==
    { [model_time |-> m.model_time, model_lc |-> m.model_lc,
       observing_windows |-> o, visibility_windows |-> v, exposure_length |-> l,
       kwargs |-> kw] :
        m \in LcModels, o \in LcWindows, v \in LcWindows, l \in {2, 4},
        kw \in {DefaultKwargs, ShortOrbit} }

\* model times [0, 100, 200] s, values [1, 1, 1], no windows given, exposures of
\* 50 s
FlatScenario ==
    [model_time |-> <<0, 100, 200>>, model_lc |-> <<1, 1, 1>>,
     observing_windows |-> None, visibility_windows |-> None,
     exposure_length |-> 50, kwargs |-> DefaultKwargs]

InitLc ==
    /\ pc = "lightcurve"
    /\ lc \in { [NoLc EXCEPT !.args = a] :
                a \in { x \in LcArgs : x.visibility_windows # None
                                        => x.kwargs = DefaultKwargs }
                      \cup {FlatScenario} }
    /\ listA = <<>>
    /\ listB = <<>>
    /\ call = 0
    /\ first_gti = None
    /\ gti0 = <<>>
    /\ gti1 = <<>>
    /\ order = <<>>
    /\ ie = 0
    /\ last_end = 0
    /\ final_gti = <<>>
    /\ vis = NoVis

NextLc ==
    \/ LcEnter
    \/ CrossEnter
    \/ SweepNoStart
    \/ SweepInsideLast
    \/ SweepClosed
    \/ SweepEmit
    \/ CrossReturn
    \/ LcStartLoop
    \/ LcExposure
    \/ LcNextWindow
    \/ LcReturn

SpecLc == InitLc /\ [][NextLc]_vars

\* C7: the table of the flat scenario has the four samples at 25, 75, 125 and
\* 175 s, each of flux 1.
C7_FlatScenario ==
    (pc = "done" /\ lc.args = FlatScenario) =>
        /\ lc.result_table.time = <<25, 75, 125, 175>>
        /\ lc.result_table.flux = << <<1, 1>>, <<1, 1>>, <<1, 1>>, <<1, 1>> >>

\* the interpolated model is the constant v at all ten fine times of row r
FlatAt(r, v) ==
    \A i \in 1..fine_samples : r.fine_model[i] = v * ValDen(lc.args.model_time)

\* C8: an exposure whose ten interpolated samples all equal v gets flux v.
C8_FlatInvariance ==
    pc \in {"expose", "done"} =>
        \A i \in 1..Len(lc.rows) : \A v \in 0..MaxFlux :
            FlatAt(lc.rows[i], v) => lc.rows[i].flux = <<v, 1>>

\* the rows of window w
RowsOf(w) == SelectSeq(lc.rows, LAMBDA r : r.ow = w)

\* the duration an exposure samples over, as numerator over fine_samples - 1
Span(r) == r.fine_times[fine_samples] - r.fine_times[1]

\* C9: a window of duration D gets ceil(D / L) exposures, starting at
\* window_start + k * L, and the last one samples over D mod L when that is not
\* zero and over L otherwise, so that none samples past the end of the window.
C9_Tiling ==
    pc = "done" =>
        \A w \in 1..Len(lc.observing_windows) :
            LET win == lc.observing_windows[w]
                L == lc.args.exposure_length
                D == win[2] - win[1]
                rows == RowsOf(w)
                n == (D + L - 1) \div L
            IN  /\ Len(rows) = n
                /\ \A j \in 1..Len(rows) : rows[j].t = win[1] + (j - 1) * L
                /\ n > 0 =>
                      Span(rows[n]) =
                          (fine_samples - 1) * (IF D % L # 0 THEN D % L ELSE L)
                /\ \A j \in 1..Len(rows) :
                      rows[j].fine_times[fine_samples]
                          <= (fine_samples - 1) * win[2]

=============================================================================
